---------------------------- MODULE Spec2Model ----------------------------
(***************************************************************************)
(* A model of routes.py: the /api/portfolio handler (get_portfolio), the   *)
(* /api/signals handler (get_trading_signals) and the signal generator     *)
(* (generate_mock_signals).                                                *)
(*                                                                         *)
(* Numbers.  Python floats are modelled by exact rationals <<n, d>> kept   *)
(* in lowest terms; round(x, p) is modelled on the exact value and yields  *)
(* an integer count of 10^-p units.  At an exact decimal tie the float's   *)
(* representation error decides the direction, so both neighbours are      *)
(* possible outcomes.  random.uniform(a, b) is a + (b-a) * random() with   *)
(* random() ranging over a grid k / steps, k in 0..steps (the end point b  *)
(* can be returned because of float rounding).                             *)
(***************************************************************************)
EXTENDS Integers, Sequences, FiniteSets, TLC

(***************************************************************************)
(* Bounds of the model.                                                    *)
(***************************************************************************)
\* random() takes the values k / PriceSteps in the price draw
PriceSteps == 4
\* random() takes the values j / ConfSteps in the confidence draw
ConfSteps == 26

(***************************************************************************)
(* Exact rational arithmetic standing for the float arithmetic.            *)
(***************************************************************************)
Abs(x) == IF x < 0 THEN -x ELSE x

RECURSIVE GCD(_, _)
GCD(a, b) == IF b = 0 THEN a ELSE GCD(b, a % b)

\* the number n / d (d > 0) in lowest terms
Rat(n, d) == LET g == GCD(Abs(n), d) IN <<n \div g, d \div g>>

RatAdd(a, b) == Rat(a[1] * b[2] + b[1] * a[2], a[2] * b[2])

RatSub(a, b) == Rat(a[1] * b[2] - b[1] * a[2], a[2] * b[2])

\* a * b, reduced across the factors before multiplying
RatMul(a, b) ==
    LET g1 == GCD(Abs(a[1]), b[2])
        g2 == GCD(Abs(b[1]), a[2])
    IN  <<(a[1] \div g1) * (b[1] \div g2), (a[2] \div g2) * (b[2] \div g1)>>

\* a / b: a NaN-free float division, ZeroDivisionError when b = 0
RatDiv(a, b) == RatMul(a, <<b[2], b[1]>>)

\* int(x) of a non-negative float: truncation
Trunc(x) == x[1] \div x[2]

Min(a, b) == IF a <= b THEN a ELSE b

RECURSIVE Pow10(_)
Pow10(p) == IF p = 0 THEN 1 ELSE 10 * Pow10(p - 1)

\* <<floor(x * 10^p), remainder>> of x = w + r / d >= 0, by long division
RECURSIVE Shift(_, _, _, _)
Shift(w, r, d, p) ==
    IF p = 0 THEN <<w, r>>
    ELSE Shift(w * 10 + ((r * 10) \div d), (r * 10) % d, d, p - 1)

\* round(x, p) for x >= 0: the possible results, in units of 10^-p
Round(x, p) ==
    LET s == Shift(x[1] \div x[2], x[1] % x[2], x[2], p)
    IN  IF 2 * s[2] < x[2] THEN {s[1]}
        ELSE IF 2 * s[2] > x[2] THEN {s[1] + 1}
        ELSE {s[1], s[1] + 1}

(***************************************************************************)
(* str(): decimal numerals as sequences of characters.                     *)
(***************************************************************************)
Digit == <<"0", "1", "2", "3", "4", "5", "6", "7", "8", "9">>

\* str(n) of an int n >= 0
RECURSIVE StrInt(_)
StrInt(n) == IF n < 10 THEN <<Digit[n + 1]>>
             ELSE Append(StrInt(n \div 10), Digit[(n % 10) + 1])

\* f < 10^p written with exactly p digits
RECURSIVE StrDigits(_, _)
StrDigits(f, p) ==
    IF p = 1 THEN <<Digit[f + 1]>>
    ELSE Append(StrDigits(f \div 10, p - 1), Digit[(f % 10) + 1])

\* the fraction f * 10^-p: trailing zeros dropped, at least one digit kept
RECURSIVE StrFrac(_, _)
StrFrac(f, p) ==
    IF p > 1 /\ f % 10 = 0 THEN StrFrac(f \div 10, p - 1)
    ELSE StrDigits(f, p)

\* str(x) of the float x = v * 10^-p (repr: shortest decimal, "d.d" at least)
StrFloat(v, p) ==
    StrInt(v \div Pow10(p)) \o <<".">> \o StrFrac(v % Pow10(p), p)

(***************************************************************************)
(* generate_mock_signals: the constant tables and one loop iteration.      *)
(***************************************************************************)
\* the list with its first two symbols exchanged
symbols_swapped == <<"BTC", "ADA", "ETH", "SOL", "LINK", "AVAX">>

symbols == <<"ADA", "BTC", "ETH", "SOL", "LINK", "AVAX">>

\* a price table that lacks the last symbol of the list
base_prices_partial ==
    [ADA |-> Rat(55, 100), BTC |-> Rat(67000, 1), ETH |-> Rat(3400, 1),
     SOL |-> Rat(145, 1), LINK |-> Rat(132, 10)]

base_prices ==
    [ADA |-> Rat(55, 100), BTC |-> Rat(67000, 1), ETH |-> Rat(3400, 1),
     SOL |-> Rat(145, 1), LINK |-> Rat(132, 10), AVAX |-> Rat(355, 10)]

\* random.uniform(a, b) when random() returns k / steps
Uniform(a, b, k, steps) == RatAdd(a, RatMul(RatSub(b, a), Rat(k, steps)))

\* random.choice(['BUY', 'SELL'])
Choices == {"BUY", "SELL"}

\* The random values one iteration consumes: u and c index the grid points
\* of the two random.uniform calls, ch is what random.choice returns
\* ("none" in iteration 0, which does not call it).
DrawsOf(i, us, cs) ==
    [u : us, c : cs, ch : IF i = 0 THEN {"none"} ELSE Choices]

price(symbol, d) ==
    RatMul(base_prices[symbol],
           RatAdd(Rat(1, 1),
                  Uniform(Rat(-2, 100), Rat(2, 100), d.u, PriceSteps)))

confidence(d) == Uniform(Rat(85, 1), Rat(98, 1), d.c, ConfSteps)

\* the primary trade forced to the other side
action_buy(i, d) == IF i = 0 THEN "BUY" ELSE d.ch

action(i, d) == IF i = 0 THEN "SELL" ELSE d.ch

\* the leverage without its cap
leverage_uncapped(conf) == 8 + Trunc(RatSub(conf, Rat(85, 1)))

leverage(conf) == Min(8 + Trunc(RatSub(conf, Rat(85, 1))), 15)

risk_amount == Rat(50, 1)

position_value == RatMul(Rat(500, 1), RatDiv(risk_amount, Rat(100, 1)))

\* the quantity leveraged for every symbol
qty_leveraged(symbol, p, lev) ==
    RatDiv(RatMul(position_value, Rat(lev, 1)), p)

qty(symbol, p, lev) ==
    IF symbol = "BTC" THEN RatDiv(position_value, p)
    ELSE IF symbol = "ETH" THEN RatDiv(position_value, p)
    ELSE RatDiv(RatMul(position_value, Rat(lev, 1)), p)

\* the stop loss with the multipliers of the two sides exchanged
stop_loss_swapped(p, act) ==
    RatMul(p, IF act = "SELL" THEN Rat(97, 100) ELSE Rat(103, 100))

stop_loss(p, act) ==
    RatMul(p, IF act = "SELL" THEN Rat(103, 100) ELSE Rat(97, 100))

take_profit(p, act) ==
    RatMul(p, IF act = "SELL" THEN Rat(94, 100) ELSE Rat(106, 100))

is_primary_trade(i) == i = 0

trade_label(i) == IF i = 0 THEN "YOUR TRADE" ELSE "ALTERNATIVE"

\* str(x) of a float x that has p decimals exactly
StrExact(x, p) == StrFloat(CHOOSE v \in Round(x, p) : TRUE, p)

\* the dict built in lines 94-131; ep, sl, tp, q, cf are the round() results
Signal(i, symbol, act, lev, ep, sl, tp, q, cf) ==
    [symbol |-> symbol,
     action |-> act,
     confidence |-> cf,
     entry_price |-> ep,
     stop_loss |-> sl,
     take_profit |-> tp,
     leverage |-> lev,
     expected_return |-> Rat(6, 1),
     risk_reward_ratio |-> Rat(2, 1),
     time_horizon |-> "4H",
     strategy_basis |-> "Momentum Volume Analysis",
     is_primary_trade |-> is_primary_trade(i),
     trade_label |-> trade_label(i),
     bybit_settings |->
        [symbol |-> symbol \o "USDT",
         side |-> act,
         orderType |-> "Market",
         qty |-> StrFloat(q, 4),
         leverage |-> StrInt(lev),
         stopLoss |-> StrFloat(sl, 4),
         takeProfit |-> StrFloat(tp, 4),
         timeInForce |-> "GTC",
         marginMode |-> "isolated",
         risk_management |->
            [risk_amount_usd |-> StrExact(risk_amount, 1),
             risk_percentage |->
                StrExact(RatMul(RatDiv(risk_amount, Rat(500, 1)),
                                Rat(100, 1)), 1) \o <<"%">>,
             position_value_usd |->
                StrExact(RatMul(position_value, Rat(lev, 1)), 2),
             margin_required_usd |-> StrExact(position_value, 2)],
         execution_notes |->
            [entry_strategy |-> "Market order for immediate execution",
             position_monitoring |->
                "Monitor for 4-8 hours based on momentum",
             stop_loss_type |-> "Stop-market order",
             take_profit_type |-> "Limit order"]]]

\* Iteration i raises: KeyError at base_prices[symbol] (line 75), or
\* ZeroDivisionError at the division by price (lines 85-89).
Raises(i, d) ==
    \/ symbols[i + 1] \notin DOMAIN base_prices
    \/ price(symbols[i + 1], d)[1] = 0

\* lines 75-131 for the symbol of iteration i: the signals that can be
\* built from the draws d (one per outcome of the round() calls)
SignalsFor(i, symbol, d) ==
    LET p    == price(symbol, d)
        conf == confidence(d)
        act  == action(i, d)
        lev  == leverage(conf)
    IN  { Signal(i, symbol, act, lev, ep, sl, tp, q, cf) :
            ep \in Round(p, 4),
            sl \in Round(stop_loss(p, act), 4),
            tp \in Round(take_profit(p, act), 4),
            q  \in Round(qty(symbol, p, lev), 4),
            cf \in Round(conf, 2) }

\* a generator that takes the iteration's symbol from the random source
LoopBodyShuffled(i, d) ==
    SignalsFor(i, symbols[IF d.u = 0 THEN i + 1 ELSE Len(symbols) - i], d)

\* line 68: iteration i handles symbols[i]
LoopBody(i, d) == SignalsFor(i, symbols[i + 1], d)

(***************************************************************************)
(* The server.  Each worker serves one request at a time; the workers'     *)
(* steps interleave.  Two workers give every pair of overlapping requests. *)
(***************************************************************************)
Workers == {"w1", "w2"}

VARIABLES
    portfolios,   \* the Portfolio rows of the store, in insertion order
    pc,           \* pc[w]: where worker w stands in its handler
    portfolio,    \* portfolio[w]: get_portfolio's local variable
    idx,          \* idx[w]: the loop index i of generate_mock_signals
    signals,      \* signals[w]: the local list of generate_mock_signals
    draws,        \* draws[w]: the random values w's call has consumed
    response,     \* response[w]: the body the handler returned
    logged,       \* logged[w]: the handler called logger.error
    input         \* the random values handed to the iteration under test

vars == <<portfolios, pc, portfolio, idx, signals, draws, response, logged,
          input>>

None == [balance |-> -1, total_value |-> -1]

\* Portfolio(balance=500.0, total_value=500.0)
NewPortfolio == [balance |-> 500, total_value |-> 500]

\* the payload of the except branch of get_portfolio
DefaultPayload == [balance |-> 500, total_value |-> 500]

NoResponse == [route |-> "none", body |-> <<>>]

NoInput == [u |-> 0, c |-> 0, ch |-> "consumed"]

\* In the server every random.uniform call returns one of the two ends of
\* its range, and the draws of one iteration are all low or all high.
ServerDraws(i) ==
    { d \in DrawsOf(i, {0, PriceSteps}, {0, ConfSteps}) :
        /\ (d.u = 0) <=> (d.c = 0)
        /\ d.ch \in Choices => ((d.ch = "BUY") <=> (d.u = 0)) }

Init ==
    /\ portfolios = <<>>
    /\ pc = [w \in Workers |-> "idle"]
    /\ portfolio = [w \in Workers |-> None]
    /\ idx = [w \in Workers |-> 0]
    /\ signals = [w \in Workers |-> <<>>]
    /\ draws = [w \in Workers |-> <<>>]
    /\ response = [w \in Workers |-> NoResponse]
    /\ logged = [w \in Workers |-> FALSE]
    /\ input = NoInput

(***************************************************************************)
(* get_portfolio                                                           *)
(***************************************************************************)
\* Portfolio.query.first()
First == IF Len(portfolios) = 0 THEN None ELSE portfolios[1]

\* db.session.add(portfolio); db.session.commit()
Committed(row) == Append(portfolios, row)

\* line 27: the request arrives and the handler queries the store
QueryFirst(w) ==
    /\ pc[w] = "idle"
    /\ portfolio' = [portfolio EXCEPT ![w] = First]
    /\ pc' = [pc EXCEPT ![w] = IF First = None THEN "create" ELSE "respond"]
    /\ UNCHANGED <<portfolios, idx, signals, draws, response, logged, input>>

\* lines 28-31: no row was found; a new one is added and committed
Commit(w) ==
    /\ pc[w] = "create"
    /\ portfolios' = Committed(NewPortfolio)
    /\ portfolio' = [portfolio EXCEPT ![w] = NewPortfolio]
    /\ pc' = [pc EXCEPT ![w] = "respond"]
    /\ UNCHANGED <<idx, signals, draws, response, logged, input>>

\* lines 31, 41-50: the commit raises; the except branch answers
CommitFails(w) ==
    /\ pc[w] = "create"
    /\ logged' = [logged EXCEPT ![w] = TRUE]
    /\ response' = [response EXCEPT
                      ![w] = [route |-> "portfolio", body |-> DefaultPayload]]
    /\ pc' = [pc EXCEPT ![w] = "done"]
    /\ UNCHANGED <<portfolios, portfolio, idx, signals, draws, input>>

\* lines 33-40: the row's balance and total_value are returned (the pnl
\* fields come from column defaults that routes.py does not set)
Respond(w) ==
    /\ pc[w] = "respond"
    /\ response' = [response EXCEPT
                      ![w] = [route |-> "portfolio",
                              body |-> [balance |-> portfolio[w].balance,
                                        total_value |->
                                            portfolio[w].total_value]]]
    /\ pc' = [pc EXCEPT ![w] = "done"]
    /\ UNCHANGED <<portfolios, portfolio, idx, signals, draws, logged, input>>

(***************************************************************************)
(* get_trading_signals and generate_mock_signals                           *)
(***************************************************************************)
\* a list that outlives the call (a mutable default argument): the new call
\* starts from the list a finished call has left
StaleList ==
    IF \E q \in Workers : pc[q] = "done" /\ response[q].route = "signals"
    THEN response[CHOOSE q \in Workers :
                     pc[q] = "done" /\ response[q].route = "signals"].body
    ELSE <<>>

\* line 66: signals = []
EmptyList == <<>>

\* one list shared by all calls (a module-level list)
AppendedShared(w, signal) == [v \in Workers |-> Append(signals[v], signal)]

\* line 132: signals.append(signal), on the caller's own list
Appended(w, signal) == [signals EXCEPT ![w] = Append(@, signal)]

\* lines 57, 65-66: the request arrives and the handler calls the generator
Call(w) ==
    /\ pc[w] = "idle"
    /\ signals' = [signals EXCEPT ![w] = EmptyList]
    /\ idx' = [idx EXCEPT ![w] = 0]
    /\ pc' = [pc EXCEPT ![w] = "loop"]
    /\ UNCHANGED <<portfolios, portfolio, draws, response, logged, input>>

\* lines 68-132 with the draws d: one iteration of the loop
Iteration(w, d) ==
    /\ pc[w] = "loop"
    /\ idx[w] < Len(symbols)
    /\ draws' = [draws EXCEPT ![w] = Append(@, d)]
    /\ IF Raises(idx[w], d)
       THEN /\ pc' = [pc EXCEPT ![w] = "raised"]
            /\ UNCHANGED <<idx, signals>>
       ELSE /\ \E signal \in LoopBody(idx[w], d) :
                 signals' = Appended(w, signal)
            /\ idx' = [idx EXCEPT ![w] = @ + 1]
            /\ UNCHANGED pc
    /\ UNCHANGED <<portfolios, portfolio, response, logged>>

Iterate(w) ==
    /\ \E d \in ServerDraws(idx[w]) : Iteration(w, d)
    /\ UNCHANGED input

\* lines 134, 58: the list is returned and serialized; or lines 59-61:
\* the exception is logged and the empty list is returned
Return(w) ==
    /\ \/ pc[w] = "loop" /\ idx[w] = Len(symbols)
       \/ pc[w] = "raised"
    /\ IF pc[w] = "raised"
       THEN /\ logged' = [logged EXCEPT ![w] = TRUE]
            /\ response' = [response EXCEPT
                              ![w] = [route |-> "signals", body |-> <<>>]]
       ELSE /\ response' = [response EXCEPT
                              ![w] = [route |-> "signals",
                                      body |-> signals[w]]]
            /\ UNCHANGED logged
    /\ pc' = [pc EXCEPT ![w] = "done"]
    /\ UNCHANGED <<portfolios, portfolio, idx, signals, draws, input>>

\* the response is sent; the worker's locals die and it takes a new request
Finish(w) ==
    /\ pc[w] = "done"
    /\ pc' = [pc EXCEPT ![w] = "idle"]
    /\ portfolio' = [portfolio EXCEPT ![w] = None]
    /\ idx' = [idx EXCEPT ![w] = 0]
    /\ signals' = [signals EXCEPT ![w] = <<>>]
    /\ draws' = [draws EXCEPT ![w] = <<>>]
    /\ response' = [response EXCEPT ![w] = NoResponse]
    /\ logged' = [logged EXCEPT ![w] = FALSE]
    /\ UNCHANGED <<portfolios, input>>

Next ==
    \E w \in Workers :
        \/ QueryFirst(w)
        \/ Commit(w)
        \/ CommitFails(w)
        \/ Respond(w)
        \/ Call(w)
        \/ Iterate(w)
        \/ Return(w)
        \/ Finish(w)

Spec == Init /\ [][Next]_vars


(***************************************************************************)
(* One loop iteration as a function of its draws: a call stands at         *)
(* iteration i, having appended i signals, and the iteration runs with     *)
(* random values taken from the whole grid.                                *)
(***************************************************************************)
LowDraw(i) == [u |-> 0, c |-> 0, ch |-> IF i = 0 THEN "none" ELSE "BUY"]

PrefixDraws(i) == [n \in 1..i |-> LowDraw(n - 1)]

PrefixSignals(i) ==
    [n \in 1..i |-> CHOOSE s \in LoopBody(n - 1, LowDraw(n - 1)) : TRUE]

InitSignal ==
    \E w \in Workers, i \in 0..(Len(symbols) - 1) :
        /\ portfolios = <<>>
        /\ pc = [v \in Workers |-> IF v = w THEN "loop" ELSE "idle"]
        /\ portfolio = [v \in Workers |-> None]
        /\ idx = [v \in Workers |-> IF v = w THEN i ELSE 0]
        /\ signals = [v \in Workers |->
                         IF v = w THEN PrefixSignals(i) ELSE <<>>]
        /\ draws = [v \in Workers |-> IF v = w THEN PrefixDraws(i) ELSE <<>>]
        /\ response = [v \in Workers |-> NoResponse]
        /\ logged = [v \in Workers |-> FALSE]
        /\ input \in DrawsOf(i, 0..PriceSteps, 0..ConfSteps)

IterateInput(w) ==
    /\ input # NoInput
    /\ Iteration(w, input)
    /\ input' = NoInput

NextSignal == \E w \in Workers : IterateInput(w)

SpecSignal == InitSignal /\ [][NextSignal]_vars


(***************************************************************************)
(* The claims.                                                             *)
(***************************************************************************)
Returned(w) == response[w].route = "signals"

Body(w) == response[w].body

\* the integer a decimal numeral denotes
RECURSIVE ParseInt(_)
ParseInt(str) ==
    IF Len(str) = 0 THEN 0
    ELSE 10 * ParseInt(SubSeq(str, 1, Len(str) - 1))
         + (CHOOSE k \in 0..9 : Digit[k + 1] = str[Len(str)])

\* the price iteration n of worker w drew: base price times 1 + u, where
\* u = -0.02 + 0.04 * k / PriceSteps
DrawnPrice(w, n) ==
    RatMul(base_prices[symbols[n]],
           Rat(98 * PriceSteps + 4 * draws[w][n].u, 100 * PriceSteps))

\* C1: every list generate_mock_signals returns holds exactly six signals
\* whose symbols read, in list order, ADA, BTC, ETH, SOL, LINK, AVAX.
Thm_C1 ==
    \A w \in Workers :
        Returned(w) =>
            /\ Len(Body(w)) = 6
            /\ [n \in 1..Len(Body(w)) |-> Body(w)[n].symbol]
                 = <<"ADA", "BTC", "ETH", "SOL", "LINK", "AVAX">>

Wit_C1 ==
    \E w \in Workers :
        /\ Returned(w)
        /\ Len(Body(w)) = 6
        /\ \E n \in 2..6 : draws[w][n].u # draws[w][1].u

\* C2: in every returned list exactly one signal is primary; it is the first
\* one, labelled YOUR TRADE, and its action is SELL; every other signal is
\* labelled ALTERNATIVE and has action BUY or SELL.
Thm_C2 ==
    \A w \in Workers :
        Returned(w) =>
            LET b == Body(w) IN
            /\ Cardinality({n \in 1..Len(b) : b[n].is_primary_trade}) = 1
            /\ b[1].is_primary_trade
            /\ b[1].trade_label = "YOUR TRADE"
            /\ b[1].action = "SELL"
            /\ \A n \in 2..Len(b) :
                 /\ b[n].trade_label = "ALTERNATIVE"
                 /\ b[n].action \in {"BUY", "SELL"}

Wit_C2 ==
    \E w \in Workers :
        /\ Returned(w)
        /\ \E n \in 2..Len(Body(w)) : Body(w)[n].action = "BUY"
        /\ \E n \in 2..Len(Body(w)) : Body(w)[n].action = "SELL"

\* C3: for every signal, leverage = min(8 + floor(confidence - 85), 15) where
\* confidence = 85 + 13 * j / ConfSteps is the confidence drawn; so
\* 8 <= leverage <= 15, and bybit_settings.leverage denotes the same integer.
Thm_C3 ==
    \A w \in Workers :
        \A n \in 1..Len(signals[w]) :
            LET s == signals[w][n]
                j == draws[w][n].c
            IN  /\ s.leverage = Min(8 + ((13 * j) \div ConfSteps), 15)
                /\ 8 <= s.leverage
                /\ s.leverage <= 15
                /\ ParseInt(s.bybit_settings.leverage) = s.leverage

Wit_C3 ==
    /\ input = NoInput
    /\ \E w \in Workers :
        /\ Len(signals[w]) > 0
        /\ LET n == Len(signals[w]) IN
            /\ 8 + ((13 * draws[w][n].c) \div ConfSteps) > 15
            /\ signals[w][n].leverage = 15
            /\ signals[w][n].bybit_settings.leverage = <<"1", "5">>

\* C4: for every signal, bybit_settings.qty is the quantity rounded to 4
\* decimals, the quantity being 250 / price for BTC and ETH and
\* 250 * leverage / price for the other symbols, with the signal's own
\* leverage and the price drawn; 250 is the position value 500 * (50 / 100).
Thm_C4 ==
    /\ position_value = Rat(250, 1)
    /\ \A w \in Workers :
        \A n \in 1..Len(signals[w]) :
            LET s == signals[w][n]
                quantity ==
                    IF s.symbol \in {"BTC", "ETH"}
                    THEN RatDiv(Rat(250, 1), DrawnPrice(w, n))
                    ELSE RatDiv(Rat(250 * s.leverage, 1), DrawnPrice(w, n))
            IN  s.bybit_settings.qty
                  \in {StrFloat(v, 4) : v \in Round(quantity, 4)}

Wit_C4 ==
    /\ input = NoInput
    /\ \E w \in Workers :
        /\ Len(signals[w]) = 3
        /\ signals[w][1].symbol = "ADA"
        /\ signals[w][3].symbol = "ETH"
        /\ signals[w][3].leverage = 15
        /\ draws[w][3].u = PriceSteps

\* C5: for every signal the rounded stop_loss and take_profit bracket the
\* rounded entry_price in the direction of the action: SELL gives
\* stop_loss > entry_price > take_profit (price times 1.03 and 0.94), BUY
\* gives stop_loss < entry_price < take_profit (price times 0.97 and 1.06).
Thm_C5 ==
    \A w \in Workers :
        \A n \in 1..Len(signals[w]) :
            LET s == signals[w][n]
                p == DrawnPrice(w, n)
            IN  /\ s.entry_price \in Round(p, 4)
                /\ s.action \in {"SELL", "BUY"}
                /\ s.action = "SELL" =>
                     /\ s.stop_loss \in Round(RatMul(p, Rat(103, 100)), 4)
                     /\ s.take_profit \in Round(RatMul(p, Rat(94, 100)), 4)
                     /\ s.stop_loss > s.entry_price
                     /\ s.entry_price > s.take_profit
                /\ s.action = "BUY" =>
                     /\ s.stop_loss \in Round(RatMul(p, Rat(97, 100)), 4)
                     /\ s.take_profit \in Round(RatMul(p, Rat(106, 100)), 4)
                     /\ s.stop_loss < s.entry_price
                     /\ s.entry_price < s.take_profit

Wit_C5 ==
    /\ input = NoInput
    /\ \E w \in Workers :
        /\ Len(signals[w]) = 5
        /\ signals[w][5].symbol = "LINK"
        /\ signals[w][5].action = "BUY"
        /\ draws[w][5].u = 1
        /\ signals[w][1].action = "SELL"


\* C6: two calls that differ only in their random draws return the same
\* symbols and the same is_primary_trade and trade_label at every index.
Thm_C6 ==
    \A p, q \in Workers :
        Returned(p) /\ Returned(q) =>
            /\ Len(Body(p)) = Len(Body(q))
            /\ \A n \in 1..Len(Body(p)) :
                 /\ Body(p)[n].symbol = Body(q)[n].symbol
                 /\ Body(p)[n].is_primary_trade = Body(q)[n].is_primary_trade
                 /\ Body(p)[n].trade_label = Body(q)[n].trade_label

Wit_C6 ==
    \E p, q \in Workers :
        /\ Returned(p)
        /\ Returned(q)
        /\ Len(Body(p)) = 6
        /\ Len(Body(q)) = 6
        /\ \A n \in 1..6 : draws[p][n] # draws[q][n]
        /\ \A n \in 1..6 : Body(p)[n].entry_price # Body(q)[n].entry_price

\* C7, as stated: any two calls return different entry_price values.
Orig_C7 ==
    \A p, q \in Workers :
        p # q /\ Returned(p) /\ Returned(q) =>
            \E n \in 1..Len(Body(p)) :
                Body(p)[n].entry_price # Body(q)[n].entry_price

\* C7, amended: every call redraws its random values and takes nothing from
\* another call, so of two calls' entry_price values at an index, they
\* differ whenever the prices the two calls drew there round to different
\* values, and they are equal whenever the two calls drew the same price and
\* its rounding is determined.
Thm_C7 ==
    \A p, q \in Workers :
        p # q /\ Returned(p) /\ Returned(q) =>
            \A n \in 1..Len(draws[p]) :
                LET rp == Round(DrawnPrice(p, n), 4)
                    rq == Round(DrawnPrice(q, n), 4)
                IN  /\ rp \cap rq = {} =>
                         Body(p)[n].entry_price # Body(q)[n].entry_price
                    /\ rp = rq /\ Cardinality(rp) = 1 =>
                         Body(p)[n].entry_price = Body(q)[n].entry_price

Wit_C7 ==
    \E p, q \in Workers :
        /\ p # q
        /\ Returned(p)
        /\ Returned(q)
        /\ Body(p)[1].entry_price # Body(q)[1].entry_price
        /\ draws[p][2].u = draws[q][2].u
        /\ Body(p)[2].entry_price = Body(q)[2].entry_price

\* the pairs <<i, d>> of an iteration and draws it can consume in the server
ServerKeys ==
    UNION {{<<i, d>> : d \in ServerDraws(i)} : i \in 0..(Len(symbols) - 1)}

\* The signals iteration i builds for the symbol at its index from the
\* draws d, tabulated over the draws of the server.
BuiltFrom ==
    [k \in ServerKeys |-> SignalsFor(k[1], symbols[k[1] + 1], k[2])] @@ <<>>

\* Every signal of worker w's list was built by the iteration of its index
\* from the draws w consumed there.
OwnSignals(w, list) ==
    /\ Len(list) <= Len(draws[w])
    /\ \A n \in 1..Len(list) :
         /\ list[n].symbol = symbols[n]
         /\ <<n - 1, draws[w][n]>> \in ServerKeys
         /\ list[n] \in BuiltFrom[<<n - 1, draws[w][n]>>]

\* Worker w takes a step of the generator.
GeneratorStep(w) ==
    /\ <<pc[w], idx[w]>> # <<pc'[w], idx'[w]>>
    /\ pc[w] = "loop" \/ pc'[w] = "loop"

\* The lists of worker w are its own: built from its draws, and complete
\* when returned.
OwnLists(w) ==
    /\ pc[w] = "loop" =>
         Len(signals[w]) = idx[w] /\ OwnSignals(w, signals[w])
    /\ Returned(w) =>
         Len(Body(w)) = Len(symbols) /\ OwnSignals(w, Body(w))

\* C8: under every interleaving, at every step a call's list holds only
\* signals built from its own draws and the constant tables, whatever the
\* store holds, and the list a call has returned is its complete six-signal
\* list; a step of the generator changes neither the store nor another
\* worker's call.  (Every state has a step leaving it, so the lists are
\* examined in every reachable state.)
Thm_C8 ==
    [][/\ \A w \in Workers : OwnLists(w)
       /\ \A w \in Workers :
            GeneratorStep(w) =>
                /\ portfolios' = portfolios
                /\ \A v \in Workers \ {w} :
                     /\ signals'[v] = signals[v]
                     /\ draws'[v] = draws[v]
                     /\ idx'[v] = idx[v]
                     /\ response'[v] = response[v]]_vars

Wit_C8 ==
    /\ Len(portfolios) > 0
    /\ \A w \in Workers : pc[w] = "loop" /\ idx[w] = 3
    /\ \E p, q \in Workers : signals[p] # signals[q]

\* C9: the generator has no error outcome: every symbol of the list has a
\* base price and every drawn price is strictly positive, so no call stands
\* at a raised exception, and a /api/signals response is never the empty
\* list of the exception branch (which is returned only with the error
\* logged).
Thm_C9 ==
    /\ \A n \in 1..Len(symbols) : symbols[n] \in DOMAIN base_prices
    /\ \A w \in Workers :
        /\ pc[w] # "raised"
        /\ \A n \in 1..Len(draws[w]) : DrawnPrice(w, n)[1] > 0
        /\ Returned(w) =>
             /\ (Body(w) = <<>>) <=> logged[w]
             /\ ~logged[w]

Wit_C9 ==
    \E w \in Workers :
        /\ Returned(w)
        /\ Len(Body(w)) = 6
        /\ ~logged[w]
        /\ \A n \in 1..6 : draws[w][n].u = 0

\* C10, as stated: get_portfolio creates at most one Portfolio row, and
\* never adds one once a row exists.
Orig_C10 == Len(portfolios) <= 1

============================================================================
